---- MODULE Spec2Model ----
(***************************************************************************)
(* Actor Alphabetizer (scripts/main.js): the scope resolver, the letter    *)
(* classifier and the reconciliation run (runAlphabetizer) over the host's  *)
(* folder and actor directories.                                            *)
(*                                                                          *)
(* A run is one async function.  It executes synchronously until it has     *)
(* handed a request to the host (Folder.createDocuments or                  *)
(* Actor.updateDocuments) and continues when the host has answered; an      *)
(* await on an ensureFolder call that found an existing folder is a         *)
(* microtask tick inside the same task.  One action of the model is one     *)
(* such task.                                                               *)
(***************************************************************************)
EXTENDS Integers, Sequences, FiniteSets, TLC

VARIABLES
  folders,   \* game.folders, in insertion order: [id, name, type, folder]
  actors,    \* game.actors.contents: [id, name, type, folder]
  run,       \* run slot -> the activation record of runAlphabetizer
  nRuns,     \* number of runs started so far
  probe,     \* one evaluation of a pure function: its arguments and its result
  ui         \* the user, the dialog and the notification of openAlphabetizerDialog

vars == <<folders, actors, run, nRuns, probe, ui>>

----------------------------------------------------------------------------
(* Bounds of the model *)

MaxActors == 2        \* actors in the world
MaxInitFolders == 2   \* Actor folders that exist before the first run
MaxRuns == 2          \* runs started in one behaviour
MaxScopeFolders == 3  \* folders of the forests actorInScope is evaluated on
MaxFailures == 1      \* requests the host rejects in one behaviour
MaxNameLen == 3       \* characters of the names normalizeLetter is evaluated on
MaxCatalogFolders == 3  \* Actor folders of the worlds the catalog is built on

----------------------------------------------------------------------------
(* Values *)

NullId == 0                      \* null / undefined where an id is expected
MissingId == 0 - 1               \* an id that no folder has
NullStr == "<null>"              \* null where a string is expected
UndefinedType == "<undefined>"   \* actor.type that is undefined
UndefinedName == <<"<undefined>">>  \* actor.name that is undefined

Range(s) == {s[i] : i \in DOMAIN s}

EmptyMap == [k \in {} |-> NullId]

MapGet(m, k) == IF k \in DOMAIN m THEN m[k] ELSE NullId

MapSet(m, k, v) == [x \in DOMAIN m \cup {k} |-> IF x = k THEN v ELSE m[x]]

----------------------------------------------------------------------------
(* normalizeLetter *)

UpperCase == <<"A","B","C","D","E","F","G","H","I","J","K","L","M",
               "N","O","P","Q","R","S","T","U","V","W","X","Y","Z">>

LowerCase == <<"a","b","c","d","e","f","g","h","i","j","k","l","m",
               "n","o","p","q","r","s","t","u","v","w","x","y","z">>

WhiteSpace == {" "}

RECURSIVE trimStart(_)
trimStart(s) ==
  IF s # <<>> /\ Head(s) \in WhiteSpace THEN trimStart(Tail(s)) ELSE s

RECURSIVE trimEnd(_)
trimEnd(s) ==
  IF s # <<>> /\ s[Len(s)] \in WhiteSpace
    THEN trimEnd(SubSeq(s, 1, Len(s) - 1))
    ELSE s

trim(s) == trimEnd(trimStart(s))

AsciiLetter(c) == c \in Range(UpperCase) \cup Range(LowerCase)

toUpperCase(c) ==
  IF c \in Range(LowerCase)
    THEN UpperCase[CHOOSE i \in DOMAIN LowerCase : LowerCase[i] = c]
    ELSE c

\* match anchored at the start of the string, as /^[A-Za-z]/ would be
matchAtStart(s) ==
  IF s # <<>> /\ AsciiLetter(Head(s)) THEN Head(s) ELSE NullStr

\* s.match(/[A-Za-z]/): the first matching character, or null
RECURSIVE match(_)
match(s) ==
  IF s = <<>> THEN NullStr
  ELSE IF AsciiLetter(Head(s)) THEN Head(s)
  ELSE match(Tail(s))

normalizeLetter(name) ==
  LET s == trim(IF name = UndefinedName THEN <<>> ELSE name)
      m == match(s)
  IN  IF m # NullStr THEN toUpperCase(m) ELSE NullStr

----------------------------------------------------------------------------
(* Folder documents *)

HasFolder(F, id) == \E i \in DOMAIN F : F[i].id = id

FolderById(F, id) == F[CHOOSE i \in DOMAIN F : F[i].id = id]

ActorById(A, id) == A[CHOOSE i \in DOMAIN A : A[i].id = id]

\* cur.folder.id for the folder document with id cur (NullId: no parent)
ParentId(F, cur) ==
  IF cur # NullId /\ HasFolder(F, cur) THEN FolderById(F, cur).folder ELSE NullId

\* isDescendantFolder without its loop: only the direct parent is compared
isChildFolder(F, folder, ancestorId) ==
  LET p == ParentId(F, folder)
  IN  p # NullId /\ p = ancestorId

RECURSIVE isDescendantFolder(_, _, _)
isDescendantFolder(F, folder, ancestorId) ==
  LET p == ParentId(F, folder)
  IN  IF p = NullId THEN FALSE
      ELSE IF p = ancestorId THEN TRUE
      ELSE isDescendantFolder(F, p, ancestorId)

actorInScope(F, actor, parentId, includeSubfolders) ==
  IF parentId = NullId THEN TRUE
  ELSE IF actor.folder # NullId /\ actor.folder = parentId THEN TRUE
  ELSE IF ~includeSubfolders THEN FALSE
  ELSE IF actor.folder = NullId THEN FALSE
  ELSE isDescendantFolder(F, actor.folder, parentId)

----------------------------------------------------------------------------
(* runAlphabetizer *)

NullType == "<no type>"   \* the single partition [null] when groupByType is off

\* String(a.type)
StringOf(t) == IF t = UndefinedType THEN "undefined" ELSE t

\* The type strings of the model in the order Array.prototype.sort gives them
TypeOrder == <<"hero", "undefined", "villain">>

\* Array.from(new Set(xs)).sort(), for xs drawn from the strings of order
SortedDistinct(order, xs) ==
  LET Present(x) == x \in xs
  IN  SelectSeq(order, Present)

\* findChildFolder comparing the parent document, not its id, with parentId:
\* only top-level folders can match
findChildFolderByDocument(F, name, parentId) ==
  LET Matches(i) ==
        /\ F[i].type = "Actor"
        /\ F[i].name = name
        /\ parentId = NullId
        /\ F[i].folder = NullId
      hits == {i \in DOMAIN F : Matches(i)}
  IN  IF hits = {} THEN NullId
      ELSE F[CHOOSE i \in hits : \A j \in hits : i <= j].id

findChildFolder(F, name, parentId) ==
  LET Matches(i) ==
        /\ F[i].type = "Actor"
        /\ F[i].name = name
        /\ F[i].folder = parentId
      hits == {i \in DOMAIN F : Matches(i)}
  IN  IF hits = {} THEN NullId
      ELSE F[CHOOSE i \in hits : \A j \in hits : i <= j].id

\* The largest id among the first n folders of F
RECURSIVE MaxId(_, _)
MaxId(F, n) ==
  IF n = 0 THEN NullId
  ELSE LET m == MaxId(F, n - 1)
       IN  IF F[n].id > m THEN F[n].id ELSE m

\* The id the host gives the next created folder: one no folder has
NextFolderId(F) == MaxId(F, Len(F)) + 1

NoRequest == <<>>

IdleRun ==
  [ pc |-> "idle",
    cfg |-> [createAllLetters |-> FALSE, groupByType |-> FALSE,
             parentFolderId |-> NullId, includeSubfolders |-> FALSE],
    actors |-> <<>>,            \* ids of the in-scope actors, in directory order
    letters |-> <<>>,
    types |-> <<>>,
    typeFolderIds |-> EmptyMap,
    letterFolderIds |-> EmptyMap,
    phase |-> "types",          \* which ensure loop the run is in
    ti |-> 1,                   \* index into types
    li |-> 1,                   \* index into letters
    pending |-> NoRequest,      \* the createDocuments request in flight
    seen |-> 0,                 \* how many folders the directory had when the
                                \* run last looked a folder up and found none
    updates |-> <<>>,           \* the batch handed to Actor.updateDocuments
    created |-> <<>>,           \* ids of the folders this run created
    note |-> "none",            \* the notification shown
    moved |-> 0,                \* the count in the final notification
    before |-> [folders |-> <<>>, actors |-> <<>>],  \* the directories at the call
    prev |-> <<>>,              \* the configuration of the run completed just before
    failures |-> 0,             \* host rejections the runs of this slot have met
    createFailed |-> FALSE,     \* Folder.createDocuments rejected in this run
    origin |-> <<>> ]           \* the directories before the first failed attempt
                                \* this run retries

LetterKey(rec, t, L) == <<IF rec.cfg.groupByType THEN t ELSE "", L>>

\* EnsureTarget with the type folders at top level, whatever the root is
EnsureTargetTopLevel(rec) ==
  IF rec.phase = "types"
    THEN [name |-> rec.types[rec.ti], folder |-> NullId]
    ELSE [name |-> rec.letters[rec.li],
          folder |-> IF rec.cfg.groupByType
                       THEN MapGet(rec.typeFolderIds, rec.types[rec.ti])
                       ELSE rec.cfg.parentFolderId]

\* The (name, parentId) of the ensureFolder call the run is at
EnsureTarget(rec) ==
  IF rec.phase = "types"
    THEN [name |-> rec.types[rec.ti], folder |-> rec.cfg.parentFolderId]
    ELSE [name |-> rec.letters[rec.li],
          folder |-> IF rec.cfg.groupByType
                       THEN MapGet(rec.typeFolderIds, rec.types[rec.ti])
                       ELSE rec.cfg.parentFolderId]

\* RecordFolder without typeFolderIds.set
RecordLetterFolderOnly(rec, id) ==
  IF rec.phase = "types"
    THEN rec
    ELSE [rec EXCEPT !.letterFolderIds =
            MapSet(@, LetterKey(rec, rec.types[rec.ti], rec.letters[rec.li]), id)]

\* typeFolderIds.set / letterFolderIds.set with the id ensureFolder returned
RecordFolder(rec, id) ==
  IF rec.phase = "types"
    THEN [rec EXCEPT !.typeFolderIds = MapSet(@, rec.types[rec.ti], id)]
    ELSE [rec EXCEPT !.letterFolderIds =
            MapSet(@, LetterKey(rec, rec.types[rec.ti], rec.letters[rec.li]), id)]

\* The increment of the loop the run is in
Advance(rec) ==
  IF rec.phase = "types"
    THEN [rec EXCEPT !.ti = @ + 1]
    ELSE [rec EXCEPT !.li = @ + 1]

\* The loop conditions: from an index past its end to the next loop body, or
\* to phase "move" when the ensure loops are over
RECURSIVE Settle(_)
Settle(rec) ==
  IF rec.phase = "types"
    THEN IF rec.ti <= Len(rec.types) THEN rec
         ELSE Settle([rec EXCEPT !.phase = "letters", !.ti = 1, !.li = 1])
  ELSE IF rec.phase = "letters"
    THEN IF rec.ti > Len(rec.types) THEN [rec EXCEPT !.phase = "move"]
         ELSE IF rec.li <= Len(rec.letters) THEN rec
         ELSE Settle([rec EXCEPT !.ti = @ + 1, !.li = 1])
  ELSE rec

\* DestFolderId with the key of the ungrouped mode in both modes
DestFolderIdUngrouped(rec, a) ==
  LET L == normalizeLetter(a.name)
  IN  IF L = NullStr THEN NullId
      ELSE MapGet(rec.letterFolderIds, <<"", L>>)

\* The destination of one actor, NullId when the loop body skips it
DestFolderId(rec, a) ==
  LET L == normalizeLetter(a.name)
  IN  IF L = NullStr THEN NullId
      ELSE MapGet(rec.letterFolderIds, LetterKey(rec, StringOf(a.type), L))

\* NeedsMove without the skip of an actor that is in its destination
NeedsMoveAlways(rec, a) == DestFolderId(rec, a) # NullId

NeedsMove(rec, a) ==
  /\ DestFolderId(rec, a) # NullId
  /\ a.folder # DestFolderId(rec, a)

BuildUpdates(rec, A) ==
  LET Queued(id) == NeedsMove(rec, ActorById(A, id))
      ids == SelectSeq(rec.actors, Queued)
  IN  [i \in DOMAIN ids |->
         [_id |-> ids[i], folder |-> DestFolderId(rec, ActorById(A, ids[i]))]]

\* Step 4 up to the call of Actor.updateDocuments
MoveActors(rec, A) ==
  LET updates == BuildUpdates(rec, A)
  IN  IF updates = <<>>
        THEN [rec EXCEPT !.pc = "done", !.note = "infoNothingToMove"]
        ELSE [rec EXCEPT !.pc = "updating", !.updates = updates]

\* The run from its current loop position to its next request to the host
RECURSIVE Resume(_, _, _)
Resume(rec, F, A) ==
  LET at == Settle(rec)
  IN  IF at.phase = "move" THEN MoveActors(at, A)
      ELSE LET target == EnsureTarget(at)
               existing == findChildFolder(F, target.name, target.folder)
           IN  IF existing # NullId
                 THEN Resume(Advance(RecordFolder(at, existing)), F, A)
                 ELSE [at EXCEPT !.pc = "creating", !.pending = <<target>>,
                                 !.seen = Len(F)]

\* "ABCDEFGHIJKLMNOPQRSTUVWXYZ".split("")
Alphabet == UpperCase

\* ScopedActors without the filter
ScopedActorsAll(cfg, F, A) == A

\* Step 1: the in-scope actors, in directory order
ScopedActors(cfg, F, A) ==
  LET InScope(a) == actorInScope(F, a, cfg.parentFolderId, cfg.includeSubfolders)
  IN  SelectSeq(A, InScope)

\* LettersFor without the createAllLetters branch
LettersForPresent(cfg, scoped) ==
  SortedDistinct(UpperCase,
    {normalizeLetter(scoped[i].name) : i \in DOMAIN scoped} \ {NullStr})

\* Step 2: the letters to create
LettersFor(cfg, scoped) ==
  IF cfg.createAllLetters THEN Alphabet
  ELSE SortedDistinct(UpperCase,
         {normalizeLetter(scoped[i].name) : i \in DOMAIN scoped} \ {NullStr})

\* Step 3: the partitions
TypesFor(cfg, scoped) ==
  IF cfg.groupByType
    THEN SortedDistinct(TypeOrder, {StringOf(scoped[i].type) : i \in DOMAIN scoped})
    ELSE <<NullType>>

\* ExitNote without the guard on the letters
ExitNoteScopeOnly(scoped, letters) ==
  IF scoped = <<>> THEN "warnNoActors" ELSE "none"

\* The warning of the guard that ends the run early, "none" when none does
ExitNote(scoped, letters) ==
  IF scoped = <<>> THEN "warnNoActors"
  ELSE IF letters = <<>> THEN "warnNoLetters"
  ELSE "none"

\* Steps 1 and 2, then the ensure loops up to the first request to the host
BeginRun(old, cfg, F, A) ==
  LET scoped == ScopedActors(cfg, F, A)
      letters == LettersFor(cfg, scoped)
      exit == ExitNote(scoped, letters)
      rec == [IdleRun EXCEPT
                !.pc = "running",
                !.cfg = cfg,
                !.actors = [i \in DOMAIN scoped |-> scoped[i].id],
                !.before = [folders |-> F, actors |-> A],
                !.prev = IF old.pc = "done" THEN <<old.cfg>> ELSE <<>>,
                !.failures = old.failures,
                !.origin = IF old.pc = "failed" /\ old.cfg = cfg
                             THEN IF old.origin # <<>> THEN old.origin
                                  ELSE <<old.before>>
                             ELSE <<>>]
  IN  IF exit # "none"
        THEN [rec EXCEPT !.pc = "done", !.note = exit]
        ELSE Resume([rec EXCEPT !.letters = letters,
                                !.types = TypesFor(cfg, scoped),
                                !.phase = IF cfg.groupByType THEN "types"
                                          ELSE "letters"],
                    F, A)

----------------------------------------------------------------------------
(* The host's directories before the first run *)

ActorNames == { <<"b","o","b">>, <<"1"," ","Z","u">>, <<"¡","É","!">> }

ActorTypes == {"hero", "villain"}

InitFolderNames == {"B", "hero"}

\* A folder of another document type, which no Actor lookup may return
ItemFolder == [id |-> 1, name |-> "B", type |-> "Item", folder |-> NullId]

\* Forests of k Actor folders after ItemFolder; a parent is an earlier folder
InitFolderSeqs(k) ==
  {<<ItemFolder>> \o fs : fs \in
     {f \in [1..k -> [id : 2..(k + 1), name : InitFolderNames,
                      type : {"Actor"}, folder : {NullId} \cup 2..(k + 1)]] :
        \A i \in 1..k : f[i].id = i + 1 /\ f[i].folder < f[i].id}}

ActorFolderIds(F) == {F[i].id : i \in {j \in DOMAIN F : F[j].type = "Actor"}}

\* n actors; the first one is a hero (the types are symmetric up to their names)
InitActorSeqs(n, F) ==
  {a \in [1..n -> [id : 1..n, name : ActorNames, type : ActorTypes,
                   folder : {NullId} \cup ActorFolderIds(F)]] :
     /\ \A i \in 1..n : a[i].id = i
     /\ a[1].type = "hero"}

Slots == {1, 2}       \* activations of runAlphabetizer that may exist at once

SeqSlots == {1}       \* the activation used when runs do not overlap

IdleProbe == [asked |-> FALSE, parentId |-> NullId,
              includeSubfolders |-> FALSE, result |-> <<>>]

\* A GM who has not opened the dialog
IdleUi ==
  [ isGM |-> TRUE,              \* game.user.isGM
    dialog |-> "none",          \* "none", "open", "run" (closed by Run), "closed"
    note |-> "none",            \* the notification openAlphabetizerDialog showed
    memo |-> EmptyMap,          \* descendantsMemo
    raw |-> <<>>,               \* raw
    options |-> <<>> ]          \* the options of the select, in their order

Init ==
  /\ \E k \in 0..MaxInitFolders : folders \in InitFolderSeqs(k)
  /\ actors \in InitActorSeqs(MaxActors, folders)
  /\ run = [r \in Slots |-> IdleRun]
  /\ nRuns = 0
  /\ probe = IdleProbe
  /\ ui = IdleUi

----------------------------------------------------------------------------
(* Operations *)

\* The folders the dialog's select can name, within the model's bound
RootChoices(F) ==
  {NullId, MissingId} \cup {id \in ActorFolderIds(F) : id <= MaxInitFolders + 1}

\* What the form can submit.  With Root selected includeSubfolders is never
\* read (actorInScope returns on its first line), so it keeps its default there.
Configs(F) ==
  {cfg \in [createAllLetters : BOOLEAN, groupByType : BOOLEAN,
            parentFolderId : RootChoices(F), includeSubfolders : BOOLEAN] :
     cfg.parentFolderId = NullId => cfg.includeSubfolders}

Active(r) == run[r].pc \in {"creating", "updating"}

\* The Run button: runAlphabetizer(cfg) up to its first request to the host
StartRun(r, cfg) ==
  /\ ~Active(r)
  /\ nRuns < MaxRuns
  /\ run' = [run EXCEPT ![r] = BeginRun(run[r], cfg, folders, actors)]
  /\ nRuns' = nRuns + 1
  /\ UNCHANGED <<folders, actors, probe, ui>>

\* Folder.createDocuments resolves: the folder is in the directory, the run
\* continues to its next request
HostCreated(r) ==
  /\ run[r].pc = "creating"
  /\ LET req == run[r].pending[1]
         id == NextFolderId(folders)
         F2 == Append(folders, [id |-> id, name |-> req.name,
                                type |-> "Actor", folder |-> req.folder])
         rec == [run[r] EXCEPT !.pc = "running", !.pending = NoRequest,
                               !.created = Append(@, id)]
     IN  /\ folders' = F2
         /\ run' = [run EXCEPT ![r] =
                      Resume(Advance(RecordFolder(rec, id)), F2, actors)]
  /\ UNCHANGED <<actors, nRuns, probe, ui>>

\* The directory after the host applied a batch of {_id, folder}
ApplyUpdates(A, updates) ==
  [i \in DOMAIN A |->
     IF \E j \in DOMAIN updates : updates[j]._id = A[i].id
       THEN [A[i] EXCEPT !.folder =
               updates[CHOOSE j \in DOMAIN updates : updates[j]._id = A[i].id].folder]
       ELSE A[i]]

\* Actor.updateDocuments resolves: the run reports and returns
HostUpdated(r) ==
  /\ run[r].pc = "updating"
  /\ actors' = ApplyUpdates(actors, run[r].updates)
  /\ run' = [run EXCEPT ![r] = [@ EXCEPT !.pc = "done", !.note = "infoMoved",
                                         !.moved = Len(run[r].updates)]]
  /\ UNCHANGED <<folders, nRuns, probe, ui>>

\* The Run button again with the form left as it was, after a completed run
Rerun(r) ==
  /\ run[r].pc = "done"
  /\ StartRun(r, run[r].cfg)

\* Non-overlapping runs: a first run with any configuration, then repeats of it
Next ==
  \E r \in SeqSlots :
    \/ \E cfg \in Configs(folders) : nRuns = 0 /\ StartRun(r, cfg)
    \/ Rerun(r)
    \/ HostCreated(r)
    \/ HostUpdated(r)

Spec == Init /\ [][Next]_vars

\* Non-overlapping runs with a new configuration each, from a world with one
\* Actor folder less than Init allows
InitSeq ==
  /\ Init
  /\ Cardinality(ActorFolderIds(folders)) < MaxInitFolders

NextSeq ==
  \E r \in SeqSlots :
    \/ \E cfg \in Configs(folders) : StartRun(r, cfg)
    \/ HostCreated(r)
    \/ HostUpdated(r)

SpecSeq == InitSeq /\ [][NextSeq]_vars

----------------------------------------------------------------------------
(* Runs that the host may fail *)

\* CreateRejected with the rejection caught inside the loop: the run goes on
\* without the folder
CreateRejectedCaught(rec, F, A) ==
  Resume(Advance([rec EXCEPT !.pc = "running", !.pending = NoRequest]), F, A)

\* The await on Folder.createDocuments throws: nothing catches it, the
\* rejection leaves ensureFolder, the loop and runAlphabetizer
CreateRejected(rec, F, A) == [rec EXCEPT !.pc = "failed"]

\* The await on Actor.updateDocuments throws: no notification, the run is over
UpdateRejected(rec) == [rec EXCEPT !.pc = "failed"]

\* Folder.createDocuments rejects: no folder is added
HostCreateFailed(r) ==
  /\ run[r].pc = "creating"
  /\ run[r].failures < MaxFailures
  /\ run' = [run EXCEPT ![r] =
               [CreateRejected(run[r], folders, actors) EXCEPT
                  !.createFailed = TRUE, !.failures = @ + 1]]
  /\ UNCHANGED <<folders, actors, nRuns, probe, ui>>

\* Actor.updateDocuments rejects.  What the host applied of the batch before
\* it rejected is the host's matter: any part of the batch may be applied.
HostUpdateFailed(r) ==
  /\ run[r].pc = "updating"
  /\ run[r].failures < MaxFailures
  /\ \E applied \in SUBSET DOMAIN run[r].updates :
       LET Applied(j) == j \in applied
           part == SelectSeq([j \in DOMAIN run[r].updates |-> j], Applied)
       IN  actors' = ApplyUpdates(actors,
                       [k \in DOMAIN part |-> run[r].updates[part[k]]])
  /\ run' = [run EXCEPT ![r] =
               [UpdateRejected(run[r]) EXCEPT !.failures = @ + 1]]
  /\ UNCHANGED <<folders, nRuns, probe, ui>>

\* The Run button again with the form left as it was, after an aborted run
Retry(r) ==
  /\ run[r].pc = "failed"
  /\ StartRun(r, run[r].cfg)

\* Worlds with at most one Actor folder; the first actor has a letter and is
\* in the Actor folder when there is one
InitFail ==
  /\ InitSeq
  /\ normalizeLetter(actors[1].name) # NullStr
  /\ \A id \in ActorFolderIds(folders) : actors[1].folder = id

NextFail ==
  \E r \in SeqSlots :
    \/ \E cfg \in Configs(folders) : nRuns = 0 /\ StartRun(r, cfg)
    \/ Retry(r)
    \/ HostCreated(r)
    \/ HostCreateFailed(r)
    \/ HostUpdated(r)
    \/ HostUpdateFailed(r)

SpecFail == InitFail /\ [][NextFail]_vars

----------------------------------------------------------------------------
(* Runs that overlap *)

\* Two Run clicks whose runs are both alive: the second callback starts while
\* the first run waits for the host.  The overlapping runs have
\* createAllLetters off, which keeps their ensure loops short.
ConcConfigs(F) == {cfg \in Configs(F) : ~cfg.createAllLetters}

InitConc ==
  /\ Init
  /\ ActorFolderIds(folders) = {}

\* One run per slot; the slots are taken in order
StartOverlapping(r, cfg) ==
  /\ run[r].pc = "idle"
  /\ \A q \in Slots : q < r => run[q].pc # "idle"
  /\ StartRun(r, cfg)

NextConc ==
  \E r \in Slots :
    \/ \E cfg \in ConcConfigs(folders) : StartOverlapping(r, cfg)
    \/ HostCreated(r)
    \/ HostUpdated(r)

SpecConc == InitConc /\ [][NextConc]_vars

----------------------------------------------------------------------------
(* actorInScope on its own *)

\* Forests of k Actor folders; a parent is an earlier folder
ScopeForests(k) ==
  {f \in [1..k -> [id : 1..k, name : {"F"}, type : {"Actor"},
                   folder : {NullId} \cup 1..k]] :
     \A i \in 1..k : f[i].id = i /\ f[i].folder < f[i].id}

InitScope ==
  /\ \E k \in 0..MaxScopeFolders : folders \in ScopeForests(k)
  /\ \E at \in {NullId} \cup ActorFolderIds(folders) :
       actors = <<[id |-> 1, name |-> <<"b","o","b">>, type |-> "hero",
                   folder |-> at]>>
  /\ run = [r \in Slots |-> IdleRun]
  /\ nRuns = 0
  /\ probe = IdleProbe
  /\ ui = IdleUi

\* actorInScope(a, parentId, includeSubfolders) for every actor a
AskScope(parentId, includeSubfolders) ==
  /\ probe' = [asked |-> TRUE, parentId |-> parentId,
               includeSubfolders |-> includeSubfolders,
               result |-> [i \in DOMAIN actors |->
                             actorInScope(folders, actors[i], parentId,
                                          includeSubfolders)]]
  /\ UNCHANGED <<folders, actors, run, nRuns, ui>>

NextScope ==
  \E parentId \in {NullId, MissingId} \cup ActorFolderIds(folders),
     includeSubfolders \in BOOLEAN :
    AskScope(parentId, includeSubfolders)

SpecScope == InitScope /\ [][NextScope]_vars

----------------------------------------------------------------------------
(* normalizeLetter on its own *)

\* A lower-case and an upper-case letter, a digit, white space and a letter
\* outside ASCII
NameChars == {"a", "Z", "1", " ", "é"}

\* The names of up to n characters
RECURSIVE NamesUpTo(_)
NamesUpTo(n) ==
  IF n = 0 THEN {<<>>}
  ELSE LET shorter == NamesUpTo(n - 1)
       IN  shorter \cup {Append(w, c) : w \in shorter, c \in NameChars}

InitLetter ==
  /\ folders = <<>>
  /\ \E name \in NamesUpTo(MaxNameLen) \cup {UndefinedName} :
       actors = <<[id |-> 1, name |-> name, type |-> "hero", folder |-> NullId]>>
  /\ run = [r \in Slots |-> IdleRun]
  /\ nRuns = 0
  /\ probe = IdleProbe
  /\ ui = IdleUi

\* normalizeLetter(a.name) for every actor a
AskLetter ==
  /\ ~probe.asked
  /\ probe' = [IdleProbe EXCEPT
                 !.asked = TRUE,
                 !.result = [i \in DOMAIN actors |->
                               normalizeLetter(actors[i].name)]]
  /\ UNCHANGED <<folders, actors, run, nRuns, ui>>

NextLetter == AskLetter

SpecLetter == InitLetter /\ [][NextLetter]_vars

----------------------------------------------------------------------------
(* openAlphabetizerDialog: the folder catalog *)

DigitChars == <<"0", "1", "2", "3", "4", "5", "6", "7", "8", "9">>

\* String(n) for a natural number n: its decimal digits
RECURSIVE StringOfNat(_)
StringOfNat(n) ==
  IF n < 10 THEN <<DigitChars[n + 1]>>
  ELSE Append(StringOfNat(n \div 10), DigitChars[(n % 10) + 1])

\* String(id ?? ""): the characters of an id.  Ids are numbers in the model
\* and their characters are their digits.
StringOfId(id) == IF id = NullId THEN <<>> ELSE StringOfNat(id)

ShortIdLen == 4

\* s.slice(-n)
sliceLast(s, n) ==
  IF Len(s) <= n THEN s ELSE SubSeq(s, Len(s) - n + 1, Len(s))

shortId(id) == sliceLast(StringOfId(id), ShortIdLen)

reverse(s) == [i \in DOMAIN s |-> s[Len(s) + 1 - i]]

\* parts.join(sep) for parts that are strings
RECURSIVE join(_, _)
join(parts, sep) ==
  IF parts = <<>> THEN <<>>
  ELSE IF Len(parts) = 1 THEN parts[1]
  ELSE parts[1] \o sep \o join(Tail(parts), sep)

\* The names pushed by the walk from the folder with id cur up its parents
RECURSIVE crumbParts(_, _)
crumbParts(F, cur) ==
  IF cur = NullId THEN <<>>
  ELSE <<FolderById(F, cur).name>> \o crumbParts(F, ParentId(F, cur))

folderBreadcrumb(F, id) == join(reverse(crumbParts(F, id)), <<" ", "/", " ">>)

\* game.folders.filter(f => f.type === "Actor")
ActorFolders(F) ==
  LET IsActorFolder(f) == f.type = "Actor"
  IN  SelectSeq(F, IsActorFolder)

\* parent id (NullId: top level) -> the folders with that parent, in order
buildFolderChildrenMap(actorFolders) ==
  [pid \in {actorFolders[i].folder : i \in DOMAIN actorFolders} |->
     LET HasParent(f) == f.folder = pid
     IN  SelectSeq(actorFolders, HasParent)]

\* children.get(folderId) ?? []
ChildrenOf(children, folderId) ==
  IF folderId \in DOMAIN children THEN children[folderId] ELSE <<>>

RECURSIVE dfs(_, _, _)
RECURSIVE dfsEach(_, _, _)

\* dfs for each folder of fs in turn; the memo after the last call
dfsEach(children, memo, fs) ==
  IF fs = <<>> THEN memo
  ELSE dfsEach(children, dfs(children, memo, Head(fs).id), Tail(fs))

\* dfs adding the ids of the children, not their descendant sets
dfsChildrenOnly(children, memo, folderId) ==
  IF folderId \in DOMAIN memo THEN memo
  ELSE LET kids == ChildrenOf(children, folderId)
       IN  MapSet(memo, folderId,
                  {folderId} \cup {kids[i].id : i \in DOMAIN kids})

\* dfs(folderId) of buildDescendantsMemo: the memo after the call, which holds
\* the set the call returns at folderId
dfs(children, memo, folderId) ==
  IF folderId \in DOMAIN memo THEN memo
  ELSE LET kids == ChildrenOf(children, folderId)
           m == dfsEach(children, memo, kids)
       IN  MapSet(m, folderId,
                  {folderId} \cup UNION {m[kids[i].id] : i \in DOMAIN kids})

buildDescendantsMemo(actorFolders) ==
  dfsEach(buildFolderChildrenMap(actorFolders), EmptyMap, actorFolders)

\* countActorsForFolder without the folder itself in withSubfolders
countActorsBelow(folderId, A, descendantsMemo) ==
  LET descSet == IF folderId \in DOMAIN descendantsMemo
                   THEN descendantsMemo[folderId] ELSE {folderId}
  IN  [direct |-> Cardinality({i \in DOMAIN A :
                     A[i].folder # NullId /\ A[i].folder = folderId}),
       withSubfolders |-> Cardinality({i \in DOMAIN A :
                     A[i].folder # NullId
                       /\ A[i].folder \in descSet \ {folderId}})]

countActorsForFolder(folderId, A, descendantsMemo) ==
  LET descSet == IF folderId \in DOMAIN descendantsMemo
                   THEN descendantsMemo[folderId] ELSE {folderId}
  IN  [direct |-> Cardinality({i \in DOMAIN A :
                     A[i].folder # NullId /\ A[i].folder = folderId}),
       withSubfolders |-> Cardinality({i \in DOMAIN A :
                     A[i].folder # NullId /\ A[i].folder \in descSet})]

\* raw: one entry per Actor folder
RawOptions(F, A, descendantsMemo) ==
  LET actorFolders == ActorFolders(F)
  IN  [i \in DOMAIN actorFolders |->
         LET c == countActorsForFolder(actorFolders[i].id, A, descendantsMemo)
         IN  [id |-> actorFolders[i].id,
              crumb |-> folderBreadcrumb(F, actorFolders[i].id),
              direct |-> c.direct,
              withSubfolders |-> c.withSubfolders]]

\* countsByCrumb.get(crumb) ?? 0
countsByCrumb(raw, crumb) ==
  Cardinality({i \in DOMAIN raw : raw[i].crumb = crumb})

\* `${r.crumb}${suffix} (${countLabel})`
OptionName(raw, r) ==
  LET isDup == countsByCrumb(raw, r.crumb) > 1
      suffix == IF isDup THEN <<" ", "[">> \o shortId(r.id) \o <<"]">>
                ELSE <<>>
      countLabel == StringOfNat(r.direct) \o <<"/">>
                      \o StringOfNat(r.withSubfolders)
  IN  r.crumb \o suffix \o <<" ", "(">> \o countLabel \o <<")">>

\* The characters of the sorted labels in the order of the root collation:
\* white space, punctuation, digits, letters
Collation == <<" ", "(", ")", "[", "]", "/",
               "0", "1", "2", "3", "4", "5", "6", "7", "8", "9", "A", "B">>

Rank(c) == CHOOSE i \in DOMAIN Collation : Collation[i] = c

\* a.localeCompare(b): negative, zero or positive
RECURSIVE localeCompare(_, _)
localeCompare(a, b) ==
  IF a = <<>> /\ b = <<>> THEN 0
  ELSE IF a = <<>> THEN 0 - 1
  ELSE IF b = <<>> THEN 1
  ELSE IF Rank(Head(a)) < Rank(Head(b)) THEN 0 - 1
  ELSE IF Rank(Head(a)) > Rank(Head(b)) THEN 1
  ELSE localeCompare(Tail(a), Tail(b))

\* Array.prototype.sort with (a, b) => a.name.localeCompare(b.name): stable
RECURSIVE sortByName(_)
sortByName(opts) ==
  IF opts = <<>> THEN <<>>
  ELSE LET x == opts[Len(opts)]
           sorted == sortByName(SubSeq(opts, 1, Len(opts) - 1))
           n == Cardinality({i \in DOMAIN sorted :
                               localeCompare(sorted[i].name, x.name) <= 0})
       IN  SubSeq(sorted, 1, n) \o <<x>> \o SubSeq(sorted, n + 1, Len(sorted))

\* { id: "root", name: `Root (all Actors) (${allActors.length})` }; the Run
\* callback turns the value "root" into null, the id the model gives it
RootOption(A) ==
  [id |-> NullId,
   name |-> <<"R", "o", "o", "t", " ", "(", "a", "l", "l", " ",
              "A", "c", "t", "o", "r", "s", ")", " ", "(">>
              \o StringOfNat(Len(A)) \o <<")">>]

Options(A, raw) ==
  <<RootOption(A)>> \o
    sortByName([i \in DOMAIN raw |->
                  [id |-> raw[i].id, name |-> OptionName(raw, raw[i])]])

\* openAlphabetizerDialog without the GM check
openAlphabetizerDialogUngated(u, F, A) ==
  LET descendantsMemo == buildDescendantsMemo(ActorFolders(F))
      raw == RawOptions(F, A, descendantsMemo)
  IN  [u EXCEPT !.dialog = "open", !.memo = descendantsMemo, !.raw = raw,
                !.options = Options(A, raw)]

\* openAlphabetizerDialog up to dlg.render(true)
openAlphabetizerDialog(u, F, A) ==
  IF ~u.isGM THEN [u EXCEPT !.note = "warnGM"]
  ELSE LET descendantsMemo == buildDescendantsMemo(ActorFolders(F))
           raw == RawOptions(F, A, descendantsMemo)
       IN  [u EXCEPT !.dialog = "open", !.memo = descendantsMemo, !.raw = raw,
                     !.options = Options(A, raw)]

\* mod.api.open(): the dialog is opened once in a behaviour
OpenDialog ==
  /\ ui.dialog = "none"
  /\ ui.note = "none"
  /\ ui' = openAlphabetizerDialog(ui, folders, actors)
  /\ UNCHANGED <<folders, actors, run, nRuns, probe>>

\* The Cancel button, which has no callback, or the close button of the window
ClickCancel ==
  /\ ui.dialog = "open"
  /\ ui' = [ui EXCEPT !.dialog = "closed"]
  /\ UNCHANGED <<folders, actors, run, nRuns, probe>>

\* What the form of the open dialog can submit
FormConfigs ==
  {cfg \in Configs(folders) :
     \E i \in DOMAIN ui.options : ui.options[i].id = cfg.parentFolderId}

\* The Run button: its callback reads the form and calls runAlphabetizer,
\* which runs up to its first request to the host; the dialog closes
ClickRun(r, cfg) ==
  /\ ui.dialog = "open"
  /\ nRuns < MaxRuns
  /\ ui' = [ui EXCEPT !.dialog = "run"]
  /\ run' = [run EXCEPT ![r] = BeginRun(run[r], cfg, folders, actors)]
  /\ nRuns' = nRuns + 1
  /\ UNCHANGED <<folders, actors, probe>>

\* Worlds without Actor folders, for a GM and for a user who is none
InitDialog ==
  /\ folders = <<ItemFolder>>
  /\ actors \in InitActorSeqs(MaxActors, folders)
  /\ run = [r \in Slots |-> IdleRun]
  /\ nRuns = 0
  /\ probe = IdleProbe
  /\ \E gm \in BOOLEAN : ui = [IdleUi EXCEPT !.isGM = gm]

NextDialog ==
  \/ OpenDialog
  \/ ClickCancel
  \/ \E r \in SeqSlots :
       \/ \E cfg \in FormConfigs : ClickRun(r, cfg)
       \/ HostCreated(r)
       \/ HostUpdated(r)

SpecDialog == InitDialog /\ [][NextDialog]_vars

----------------------------------------------------------------------------
(* The catalog on its own *)

\* The id of the i-th Actor folder: an id of its own whose last four
\* characters other ids have too
CatalogId(i) == (i - 1) * 10000 + 7

CatalogNames == {<<"A">>, <<"B">>, <<"A", " ", "/", " ", "B">>}

\* For each of k folders its parent: none or an earlier folder
CatalogParents(k) ==
  {p \in [1..k -> {NullId} \cup {CatalogId(i) : i \in 1..k}] :
     \A i \in 1..k : p[i] = NullId \/ \E j \in 1..(i - 1) : p[i] = CatalogId(j)}

\* Forests of k Actor folders after ItemFolder
CatalogForests(k) ==
  {<<ItemFolder>> \o
     [i \in 1..k |-> [id |-> CatalogId(i), name |-> n[i],
                      type |-> "Actor", folder |-> p[i]]] :
     n \in [1..k -> CatalogNames], p \in CatalogParents(k)}

InitCatalog ==
  /\ \E k \in 0..MaxCatalogFolders : folders \in CatalogForests(k)
  /\ actors \in [1..MaxActors ->
                   [id : 1..MaxActors, name : {<<"b", "o", "b">>},
                    type : {"hero"},
                    folder : {NullId} \cup ActorFolderIds(folders)]]
  /\ \A i \in DOMAIN actors : actors[i].id = i
  /\ run = [r \in Slots |-> IdleRun]
  /\ nRuns = 0
  /\ probe = IdleProbe
  /\ ui = IdleUi

NextCatalog == OpenDialog

SpecCatalog == InitCatalog /\ [][NextCatalog]_vars

----------------------------------------------------------------------------
(* Properties *)

Completed(r) == run[r].pc = "done"

Before(r) == run[r].before

\* The actor at position i of the directory was in the run's scope at the call
WasInScope(r, i) ==
  actorInScope(Before(r).folders, Before(r).actors[i],
               run[r].cfg.parentFolderId, run[r].cfg.includeSubfolders)

Classifiable(i) == normalizeLetter(actors[i].name) # NullStr

Repeats(r) == run[r].prev = <<run[r].cfg>>

\* C1: a run that repeats the configuration of the run completed just before
\* it requests no folder creation and submits no reassignment: it ends within
\* its first task, with both directories as they were.
Idempotent ==
  \A r \in Slots :
    Repeats(r) =>
      /\ Completed(r)
      /\ run[r].created = <<>>
      /\ run[r].pending = NoRequest
      /\ run[r].updates = <<>>
      /\ folders = Before(r).folders
      /\ actors = Before(r).actors

\* A repeat that had nothing to do after a run that created folders
IdempotentWitness ==
  \E r \in Slots :
    /\ Repeats(r)
    /\ run[r].note = "infoNothingToMove"
    /\ run[r].cfg.groupByType
    /\ Len(folders) > MaxInitFolders + 1

SameNameAndParent(f, g) ==
  /\ f.type = "Actor" /\ g.type = "Actor"
  /\ f.name = g.name
  /\ f.folder = g.folder

\* A creation request in flight names a (name, parent) no Actor folder has
RequestsAreNew ==
  \A r \in Slots :
    run[r].pc = "creating" =>
      \A i \in DOMAIN folders :
        ~SameNameAndParent(folders[i],
           [type |-> "Actor", name |-> run[r].pending[1].name,
            folder |-> run[r].pending[1].folder])

\* A step adds no folder whose name and parent an Actor folder already had
AddsNoDuplicate ==
  \A i \in DOMAIN folders' \ DOMAIN folders :
    \A j \in DOMAIN folders : ~SameNameAndParent(folders'[i], folders[j])

\* C2: in a sequence of non-overlapping runs with any configurations, every
\* creation request is for a (name, parent) pair that no Actor folder has at
\* that moment, and no step adds a second folder with the name and parent of
\* an existing one.
NoDuplicateCreation == [](RequestsAreNew) /\ [][AddsNoDuplicate]_vars

\* A second run created a folder whose name another Actor folder, under a
\* different parent, already had
NoDuplicateCreationWitness ==
  \E r \in Slots :
    /\ nRuns = 2
    /\ run[r].created # <<>>
    /\ \E i, j \in DOMAIN folders :
         /\ folders[i].id = run[r].created[1]
         /\ j < i
         /\ folders[j].type = "Actor"
         /\ folders[j].name = folders[i].name
         /\ folders[j].folder # folders[i].folder

\* The actor at position i is in a folder named by its letter directly under
\* its partition base
Placed(r, i) ==
  LET a == actors[i]
      root == run[r].cfg.parentFolderId
  IN  /\ a.folder # NullId
      /\ HasFolder(folders, a.folder)
      /\ LET f == FolderById(folders, a.folder)
         IN  /\ f.type = "Actor"
             /\ f.name = normalizeLetter(a.name)
             /\ IF run[r].cfg.groupByType
                  THEN /\ f.folder # NullId
                       /\ HasFolder(folders, f.folder)
                       /\ LET t == FolderById(folders, f.folder)
                          IN  /\ t.type = "Actor"
                              /\ t.name = StringOf(a.type)
                              /\ t.folder = root
                  ELSE f.folder = root

\* C3: after a completed run every actor that was in scope and has a letter is
\* in a folder named by that letter whose parent is the partition base: the
\* configured root, or the folder named String(type) directly under it.
PlacementPostcondition ==
  \A r \in Slots :
    Completed(r) =>
      \A i \in DOMAIN actors :
        (WasInScope(r, i) /\ Classifiable(i)) => Placed(r, i)

\* A grouped run moved both actors
PlacementWitness ==
  \E r \in Slots :
    /\ Completed(r)
    /\ run[r].cfg.groupByType
    /\ run[r].note = "infoMoved"
    /\ run[r].moved = 2

AlphabetSize == 26

AtoZ == Range(UpperCase)

ScopeWasEmpty(r) == \A i \in DOMAIN actors : ~WasInScope(r, i)

\* The partitions of the run: the type strings in scope, or the single one
Partitions(r) ==
  IF run[r].cfg.groupByType
    THEN {StringOf(actors[i].type) : i \in {j \in DOMAIN actors : WasInScope(r, j)}}
    ELSE {NullType}

\* The folder the letter folders of partition t belong under
PartitionBase(r, t) ==
  IF run[r].cfg.groupByType
    THEN findChildFolder(folders, t, run[r].cfg.parentFolderId)
    ELSE run[r].cfg.parentFolderId

\* The letter folders the run created directly under base
CreatedLettersUnder(r, base) ==
  {id \in Range(run[r].created) :
     /\ FolderById(folders, id).folder = base
     /\ FolderById(folders, id).name \in AtoZ}

HadChild(r, name, base) ==
  \E i \in DOMAIN Before(r).folders :
    SameNameAndParent(Before(r).folders[i],
                      [type |-> "Actor", name |-> name, folder |-> base])

\* C4: with groupByType on and createAllLetters off, from a tree without Actor
\* folders, the letter folders a run creates under the type folders are
\* exactly those of the (type, letter) combinations some in-scope actor has.
OnlyPresentCombinations ==
  \A r \in Slots :
    ( /\ Completed(r)
      /\ run[r].cfg.groupByType
      /\ ~run[r].cfg.createAllLetters
      /\ ActorFolderIds(Before(r).folders) = {} ) =>
        \A t \in Partitions(r) :
          {FolderById(folders, id).name :
             id \in CreatedLettersUnder(r, PartitionBase(r, t))}
            = {normalizeLetter(actors[i].name) :
                 i \in {j \in DOMAIN actors :
                          /\ WasInScope(r, j)
                          /\ Classifiable(j)
                          /\ StringOf(actors[j].type) = t}}

\* C5 as stated: a completed createAllLetters run with a non-empty scope has
\* created 26 letter folders in every partition.
CreatesAll26 ==
  \A r \in Slots :
    (Completed(r) /\ run[r].cfg.createAllLetters /\ ~ScopeWasEmpty(r)) =>
      \A t \in Partitions(r) :
        Cardinality(CreatedLettersUnder(r, PartitionBase(r, t))) = AlphabetSize

\* C5 amended: a completed createAllLetters run with a non-empty scope leaves
\* every partition base with a folder for each of the 26 letters, and has
\* created exactly the letter folders the base did not have before the run.
EnsuresAll26 ==
  \A r \in Slots :
    (Completed(r) /\ run[r].cfg.createAllLetters /\ ~ScopeWasEmpty(r)) =>
      \A t \in Partitions(r) :
        LET base == PartitionBase(r, t)
            made == CreatedLettersUnder(r, base)
            missing == {L \in AtoZ : ~HadChild(r, L, base)}
        IN  /\ Cardinality(AtoZ) = AlphabetSize
            /\ \A L \in AtoZ : findChildFolder(folders, L, base) # NullId
            /\ {FolderById(folders, id).name : id \in made} = missing
            /\ Cardinality(made) = Cardinality(missing)

\* A grouped createAllLetters run over two types created every letter folder
\* of one partition and found one of the other in place
EnsuresAll26Witness ==
  \E r \in Slots :
    /\ Completed(r)
    /\ run[r].cfg.createAllLetters
    /\ run[r].cfg.groupByType
    /\ \E t, u \in Partitions(r) :
         /\ Cardinality(CreatedLettersUnder(r, PartitionBase(r, t))) = AlphabetSize
         /\ Cardinality(CreatedLettersUnder(r, PartitionBase(r, u))) = AlphabetSize - 1

\* createAllLetters is off and no in-scope actor has a letter
NoLetterInScope(r) ==
  /\ ~run[r].cfg.createAllLetters
  /\ \A i \in DOMAIN actors : WasInScope(r, i) => ~Classifiable(i)

\* C6: a run whose scope is empty, or that has createAllLetters off and no
\* in-scope actor with a letter, ends at once with a warning, having created
\* no folder and changed no actor.
CleanEarlyExit ==
  \A r \in Slots :
    (run[r].pc # "idle" /\ (ScopeWasEmpty(r) \/ NoLetterInScope(r))) =>
      /\ Completed(r)
      /\ run[r].note = IF ScopeWasEmpty(r) THEN "warnNoActors" ELSE "warnNoLetters"
      /\ run[r].created = <<>>
      /\ run[r].pending = NoRequest
      /\ run[r].updates = <<>>
      /\ folders = Before(r).folders
      /\ actors = Before(r).actors

\* A grouped run over a non-empty scope without any letter
CleanEarlyExitWitness ==
  \E r \in Slots :
    /\ run[r].note = "warnNoLetters"
    /\ run[r].cfg.groupByType
    /\ run[r].cfg.parentFolderId # NullId

UpdatedIds(r) == {run[r].updates[j]._id : j \in DOMAIN run[r].updates}

\* C8: a run changes the folder of no actor that was out of scope or has no
\* letter, puts none of them in the batch update, counts only the entries of
\* the batch, changes nothing but the folder of an actor, and leaves every
\* folder that existed at the call in place with its name and parent.
FrameOfRun ==
  \A r \in Slots :
    run[r].pc # "idle" =>
      /\ Len(Before(r).folders) <= Len(folders)
      /\ SubSeq(folders, 1, Len(Before(r).folders)) = Before(r).folders
      /\ \A i \in DOMAIN actors :
           /\ [actors[i] EXCEPT !.folder = Before(r).actors[i].folder]
                = Before(r).actors[i]
           /\ (~WasInScope(r, i) \/ ~Classifiable(i)) =>
                /\ actors[i] = Before(r).actors[i]
                /\ actors[i].id \notin UpdatedIds(r)
      /\ run[r].moved <= Cardinality(UpdatedIds(r))

\* A run moved an actor while another actor was out of its scope
FrameOfRunWitness ==
  \E r \in Slots :
    /\ run[r].note = "infoMoved"
    /\ \E i \in DOMAIN actors : ~WasInScope(r, i) /\ Classifiable(i)

\* The ensure loops are over: the run is at or past step 4
PastEnsure(r) ==
  \/ run[r].pc = "updating"
  \/ Completed(r) /\ run[r].note \in {"infoMoved", "infoNothingToMove"}

\* The letter folder of the actor at position i: the first Actor folder named
\* by its letter under its partition base
TargetOf(r, i) ==
  findChildFolder(folders, normalizeLetter(actors[i].name),
                  PartitionBase(r, StringOf(actors[i].type)))

\* The actors the run has to move
Misplaced(r) ==
  {i \in DOMAIN actors :
     /\ WasInScope(r, i)
     /\ Classifiable(i)
     /\ Before(r).actors[i].folder # TargetOf(r, i)}

\* C9: the batch update has exactly one entry for each in-scope classifiable
\* actor whose folder differs from its target letter folder, each naming that
\* target; the reported count is the number of actors whose folder changed;
\* and with nothing to move no batch update is submitted.
MinimalReassignment ==
  \A r \in Slots :
    /\ PastEnsure(r) =>
         /\ UpdatedIds(r) = {actors[i].id : i \in Misplaced(r)}
         /\ Len(run[r].updates) = Cardinality(Misplaced(r))
         /\ \A j \in DOMAIN run[r].updates :
              \A i \in DOMAIN actors :
                actors[i].id = run[r].updates[j]._id =>
                  run[r].updates[j].folder = TargetOf(r, i)
    /\ run[r].pc = "updating" => run[r].updates # <<>>
    /\ run[r].note = "infoNothingToMove" => run[r].updates = <<>>
    /\ run[r].note = "infoMoved" =>
         /\ run[r].moved = Len(run[r].updates)
         /\ run[r].moved =
              Cardinality({i \in DOMAIN actors :
                             actors[i].folder # Before(r).actors[i].folder})

\* A run moved one actor and left one that was already in its letter folder
MinimalReassignmentWitness ==
  \E r \in Slots :
    /\ run[r].note = "infoMoved"
    /\ run[r].moved = 1
    /\ \E i \in DOMAIN actors :
         /\ WasInScope(r, i)
         /\ Classifiable(i)
         /\ Before(r).actors[i].folder = TargetOf(r, i)

\* C10: the batch update is built only when every ensureFolder call of the run
\* has returned; a letter folder is ensured only when every type folder has
\* been, under the type folder of its partition; and every destination of the
\* batch is a folder of the directory.
EnsureBeforeMove ==
  \A r \in Slots :
    /\ run[r].updates # <<>> => PastEnsure(r)
    /\ PastEnsure(r) =>
         /\ run[r].pending = NoRequest
         /\ \A t \in Range(run[r].types), L \in Range(run[r].letters) :
              /\ LetterKey(run[r], t, L) \in DOMAIN run[r].letterFolderIds
              /\ HasFolder(folders, run[r].letterFolderIds[LetterKey(run[r], t, L)])
         /\ \A j \in DOMAIN run[r].updates :
              HasFolder(folders, run[r].updates[j].folder)
    /\ run[r].cfg.groupByType =>
         /\ \A key \in DOMAIN run[r].letterFolderIds :
              /\ Range(run[r].types) \subseteq DOMAIN run[r].typeFolderIds
              /\ FolderById(folders, run[r].letterFolderIds[key]).folder
                   = run[r].typeFolderIds[key[1]]
         /\ (run[r].pc = "creating" /\ run[r].phase = "letters") =>
              /\ Range(run[r].types) \subseteq DOMAIN run[r].typeFolderIds
              /\ HasFolder(folders, run[r].pending[1].folder)

\* A grouped run that created a type folder and letter folders has its batch
\* update in flight
EnsureBeforeMoveWitness ==
  \E r \in Slots :
    /\ run[r].pc = "updating"
    /\ run[r].cfg.groupByType
    /\ Len(run[r].created) > 2

\* S with the folders whose parent is in S, n times over
RECURSIVE Subtree(_, _, _)
Subtree(F, S, n) ==
  IF n = 0 THEN S
  ELSE Subtree(F, S \cup {F[i].id : i \in {j \in DOMAIN F : F[j].folder \in S}},
               n - 1)

\* The ids of the folders that have the folder with this id as a proper ancestor
ProperDescendants(F, id) == Subtree(F, {id}, Len(F)) \ {id}

\* C7: actorInScope answers for every input, and answers true exactly when
\* rootId is null, or the actor's folder is rootId, or includeSubfolders is
\* set and rootId is a proper ancestor of the actor's folder.
ScopeResolver ==
  probe.asked =>
    \A i \in DOMAIN actors :
      /\ probe.result[i] \in BOOLEAN
      /\ probe.result[i] =
           ( \/ probe.parentId = NullId
             \/ actors[i].folder # NullId /\ actors[i].folder = probe.parentId
             \/ /\ probe.includeSubfolders
                /\ actors[i].folder \in ProperDescendants(folders, probe.parentId) )
      /\ (actors[i].folder = NullId /\ probe.parentId # NullId) => ~probe.result[i]
      /\ (probe.parentId # NullId /\ ~HasFolder(folders, probe.parentId)) =>
           ~probe.result[i]

\* An actor two folders below the root asked for is in scope
ScopeResolverWitness ==
  /\ probe.asked
  /\ probe.includeSubfolders
  /\ probe.parentId # NullId
  /\ probe.result[1]
  /\ actors[1].folder # probe.parentId
  /\ ParentId(folders, actors[1].folder) # probe.parentId

----------------------------------------------------------------------------
(* Host failures *)

\* The run of rec from directories F, A when the host rejects nothing: the
\* directories at its end
RECURSIVE Unfailing(_, _, _)
Unfailing(rec, F, A) ==
  IF rec.pc = "creating"
    THEN LET req == rec.pending[1]
             id == NextFolderId(F)
             F2 == Append(F, [id |-> id, name |-> req.name,
                              type |-> "Actor", folder |-> req.folder])
             got == [rec EXCEPT !.pc = "running", !.pending = NoRequest,
                                !.created = Append(@, id)]
         IN  Unfailing(Resume(Advance(RecordFolder(got, id)), F2, A), F2, A)
  ELSE IF rec.pc = "updating"
    THEN [folders |-> F, actors |-> ApplyUpdates(A, rec.updates)]
  ELSE [folders |-> F, actors |-> A]

IsRetry(r) == run[r].origin # <<>>

\* Where the configuration of run r leads from the directories its first
\* failed attempt started in, when nothing fails
NeverFailed(r) ==
  LET o == run[r].origin[1]
  IN  Unfailing(BeginRun(IdleRun, run[r].cfg, o.folders, o.actors),
                o.folders, o.actors)

\* C11: a run aborted by a rejected folder creation or a rejected batch update
\* issues no further request; the folder a retry of the same configuration
\* created last (the last of the directory, which only grows) has the name and
\* parent of no other Actor folder, so the retry reuses what the aborted
\* attempt created; and when the retry completes, the folder directory and
\* every actor's folder are those of a run that never failed.
SafeRetry ==
  \A r \in Slots :
    /\ run[r].pc = "failed" =>
         /\ run[r].note = "none"
         /\ run[r].createFailed => run[r].updates = <<>>
    /\ IsRetry(r) =>
         /\ run[r].created # <<>> =>
              \A j \in 1..(Len(folders) - 1) :
                ~SameNameAndParent(folders[Len(folders)], folders[j])
         /\ Completed(r) =>
              [folders |-> folders, actors |-> actors] = NeverFailed(r)

\* A retry that found folders of the aborted attempt, created the remaining
\* ones and moved actors
SafeRetryWitness ==
  \E r \in Slots :
    /\ IsRetry(r)
    /\ Completed(r)
    /\ run[r].note = "infoMoved"
    /\ run[r].created # <<>>
    /\ Len(Before(r).folders) > Len(run[r].origin[1].folders)

\* C18: once a folder creation of a run was rejected, the run is over with no
\* batch built or submitted, and every actor is in the folder it was in when
\* the run started, whatever folders the run created before.
NoMoveAfterFailedEnsure ==
  \A r \in Slots :
    run[r].createFailed =>
      /\ run[r].pc = "failed"
      /\ run[r].updates = <<>>
      /\ \A i \in DOMAIN actors : actors[i].folder = Before(r).actors[i].folder

\* A creation rejected after the run had created folders, with an actor that
\* the completed run would have moved
NoMoveAfterFailedEnsureWitness ==
  \E r \in Slots :
    /\ run[r].createFailed
    /\ run[r].created # <<>>
    /\ \E i \in DOMAIN actors : WasInScope(r, i) /\ Classifiable(i)

----------------------------------------------------------------------------
(* Overlapping runs *)

PendingFolder(r) ==
  [type |-> "Actor", name |-> run[r].pending[1].name,
   folder |-> run[r].pending[1].folder]

\* The lookup before a creation request is the only protection: a folder with
\* the name and parent of a request in flight was added after the run looked
LookupThenCreate(r) ==
  run[r].pc = "creating" =>
    \A i \in DOMAIN folders :
      SameNameAndParent(folders[i], PendingFolder(r)) => i > run[r].seen

\* Both runs reassigned the actor with id a, to different folders
BothReassigned(r, q, a) ==
  \E j \in DOMAIN run[r].updates, k \in DOMAIN run[q].updates :
    /\ run[r].updates[j]._id = a
    /\ run[q].updates[k]._id = a
    /\ run[r].updates[j].folder # run[q].updates[k].folder

\* The actor with id a is where the batch of run r put it
KeptFrom(r, a) ==
  \E j \in DOMAIN run[r].updates :
    /\ run[r].updates[j]._id = a
    /\ ActorById(actors, a).folder = run[r].updates[j].folder

\* C12: with two runs interleaved at their awaits nothing but the lookup
\* before each creation request protects the folder tree: a folder with the
\* name and parent of a request in flight can exist, added by the other run
\* after the lookup (the witness has the two folders of one name and parent);
\* and of two batches that reassign one actor to different folders only one
\* reassignment is left when both runs are done, the other one is overwritten.
UnprotectedOverlap ==
  \A r \in Slots :
    /\ LookupThenCreate(r)
    /\ \A q \in Slots \ {r} :
         (Completed(r) /\ Completed(q)) =>
           \A i \in DOMAIN actors :
             BothReassigned(r, q, actors[i].id) =>
               KeptFrom(r, actors[i].id) # KeptFrom(q, actors[i].id)

\* Two runs, both done, created a folder of the same name and parent each, and
\* moved one actor each into its own: the first reassignment is gone
UnprotectedOverlapWitness ==
  \E r \in Slots, q \in Slots :
    /\ r # q
    /\ Completed(r) /\ Completed(q)
    /\ \E i \in DOMAIN folders, j \in DOMAIN folders :
         /\ i # j
         /\ SameNameAndParent(folders[i], folders[j])
         /\ \E k \in DOMAIN run[r].created : run[r].created[k] = folders[i].id
         /\ \E k \in DOMAIN run[q].created : run[q].created[k] = folders[j].id
         /\ \E a \in DOMAIN actors :
              /\ BothReassigned(r, q, actors[a].id)
              /\ actors[a].folder = folders[j].id
              /\ ~KeptFrom(r, actors[a].id)

----------------------------------------------------------------------------
(* The folders a run creates *)

\* The root of run r names no folder of the directory the run started in
RootIsMissing(r) ==
  /\ run[r].cfg.parentFolderId # NullId
  /\ ~HasFolder(Before(r).folders, run[r].cfg.parentFolderId)

\* A run whose root matches no folder requests and creates nothing; ids grow
\* from a parent to its children, so no chain of parents returns to a folder
RootAndForest ==
  /\ \A r \in Slots :
       (run[r].pc # "idle" /\ RootIsMissing(r)) =>
         /\ run[r].created = <<>>
         /\ run[r].pending = NoRequest
  /\ \A i \in DOMAIN folders :
       folders[i].folder # NullId => folders[i].folder < folders[i].id

\* The folder a step adds answers the request of a run; its parent is the
\* root of that run, or an Actor folder directly under that root when the run
\* groups by type; the parent is null or in the directory before the step,
\* and the new id is not
CreatesUnderRoot ==
  \A i \in DOMAIN folders' \ DOMAIN folders :
    \E r \in Slots :
      LET f == folders'[i]
          root == run[r].cfg.parentFolderId
      IN  /\ run[r].pc = "creating"
          /\ run'[r].created = Append(run[r].created, f.id)
          /\ f.type = "Actor"
          /\ \/ f.folder = root
             \/ /\ run[r].cfg.groupByType
                /\ \E j \in DOMAIN folders :
                     /\ folders[j].id = f.folder
                     /\ folders[j].type = "Actor"
                     /\ folders[j].folder = root
          /\ f.folder = NullId \/ HasFolder(folders, f.folder)
          /\ ~HasFolder(folders, f.id)

\* C19: every folder a run creates has as parent the configured root (null:
\* top level) or, with grouping by type, an Actor folder that is a direct
\* child of the root, and that parent is in the directory when the folder is
\* created; a run whose root id matches no folder creates nothing; the forest
\* stays acyclic.
CreatedUnderRoot == [](RootAndForest) /\ [][CreatesUnderRoot]_vars

\* A run under an existing root folder created a letter folder inside a type
\* folder
CreatedUnderRootWitness ==
  \E r \in Slots :
    /\ run[r].cfg.parentFolderId > NullId
    /\ run[r].cfg.groupByType
    /\ run[r].created # <<>>
    /\ folders[Len(folders)].id = run[r].created[Len(run[r].created)]
    /\ folders[Len(folders)].folder \notin {NullId, run[r].cfg.parentFolderId}

----------------------------------------------------------------------------
(* The letter of a name *)

\* The characters of a name, none for a name that is undefined
CharsOf(name) == IF name = UndefinedName THEN <<>> ELSE name

\* The positions of name that hold one of a..z, A..Z
LetterPositions(name) ==
  {i \in DOMAIN CharsOf(name) :
     \E k \in DOMAIN UpperCase :
       CharsOf(name)[i] \in {LowerCase[k], UpperCase[k]}}

\* C15: for every name, the empty and the undefined one included, the result
\* of normalizeLetter is the upper-case form of the character at the first
\* position that holds one of a..z, A..Z, whatever stands before it, and null
\* when no position does; it is never a character outside A..Z.
FirstAsciiLetter ==
  probe.asked =>
    \A i \in DOMAIN actors :
      LET name == actors[i].name
          at == LetterPositions(name)
      IN  /\ probe.result[i] \in Range(UpperCase) \cup {NullStr}
          /\ at = {} => probe.result[i] = NullStr
          /\ \A p \in at :
               (\A q \in at : p <= q) =>
                 \E k \in DOMAIN UpperCase :
                   /\ CharsOf(name)[p] \in {LowerCase[k], UpperCase[k]}
                   /\ probe.result[i] = UpperCase[k]

\* A lower-case letter found behind a non-ASCII letter and a digit
FirstAsciiLetterWitness ==
  /\ probe.asked
  /\ actors[1].name = <<"é", "1", "a">>
  /\ probe.result[1] = "A"

----------------------------------------------------------------------------
(* The dialog *)

NoRunYet == nRuns = 0 /\ \A r \in Slots : run[r].pc = "idle"

\* A run exists only for a GM whose dialog was closed by Run; a user who is no
\* GM has no dialog and no options, only the warning
GateState ==
  /\ \A r \in Slots : run[r].pc # "idle" => (ui.isGM /\ ui.dialog = "run")
  /\ ui.dialog # "run" => NoRunYet
  /\ ~ui.isGM =>
       /\ ui.dialog = "none"
       /\ ui.options = <<>>
       /\ ui.note \in {"none", "warnGM"}

\* The step of an unauthorized open only shows the warning; no step of a
\* dialog that is cancelled or closed starts a run or touches a directory; a
\* run starts in the step that leaves the open dialog by Run
GateStep ==
  /\ (~ui.isGM /\ ui' # ui) => ui' = [ui EXCEPT !.note = "warnGM"]
  /\ (~ui.isGM \/ ui'.dialog = "closed") =>
       UNCHANGED <<folders, actors, run, nRuns>>
  /\ nRuns' # nRuns =>
       (ui.isGM /\ ui.dialog = "open" /\ ui'.dialog = "run")
  /\ (folders' # folders \/ actors' # actors) => ui.dialog = "run"

\* C13: runAlphabetizer is reached only in the step in which a GM's open
\* dialog is left by Run; an open by a user who is no GM shows the warning and
\* does nothing else (no dialog, no run, no change of a directory); Cancel or
\* close starts no run.
GateBeforeRun == [](GateState) /\ [][GateStep]_vars

\* A run started from the dialog moved actors
GateBeforeRunWitness ==
  /\ ui.isGM
  /\ ui.dialog = "run"
  /\ \E r \in Slots : run[r].note = "infoMoved" /\ run[r].created # <<>>

----------------------------------------------------------------------------
(* The catalog *)

\* The display label of the option with the given folder id
LabelOf(id) ==
  ui.options[CHOOSE i \in DOMAIN ui.options : ui.options[i].id = id].name

\* part occurs in s as a run of consecutive characters
Contains(s, part) ==
  \E i \in 0..(Len(s) - Len(part)) : SubSeq(s, i + 1, i + Len(part)) = part

CountLabel(r) ==
  <<" ", "(">> \o StringOfNat(r.direct) \o <<"/">>
    \o StringOfNat(r.withSubfolders) \o <<")">>

\* C14: in the catalog of an open dialog, two distinct folders with the same
\* breadcrumb have different display labels, each of which contains the last
\* four characters of its own folder id; a folder whose breadcrumb no other
\* folder has is labelled with its breadcrumb and its counts, without suffix.
DistinctLabels ==
  ui.dialog = "open" =>
    \A j \in DOMAIN ui.raw :
      /\ \A k \in DOMAIN ui.raw \ {j} :
           ui.raw[j].crumb = ui.raw[k].crumb =>
             /\ LabelOf(ui.raw[j].id) # LabelOf(ui.raw[k].id)
             /\ Contains(LabelOf(ui.raw[j].id),
                         sliceLast(StringOfId(ui.raw[j].id), ShortIdLen))
      /\ (\A k \in DOMAIN ui.raw \ {j} : ui.raw[j].crumb # ui.raw[k].crumb) =>
           LabelOf(ui.raw[j].id) = ui.raw[j].crumb \o CountLabel(ui.raw[j])

\* The direct children of the Actor folder with the given id
Kids(id) == {k \in ActorFolderIds(folders) : ParentId(folders, k) = id}

\* C16: the memo of buildDescendantsMemo has an entry for every Actor folder
\* and for nothing else; the entry of a folder without children is the set of
\* its own id; the entry of any folder is its own id with the entries of its
\* direct children, which is the folder with all its descendants.
DescendantIndex ==
  ui.dialog = "open" =>
    /\ DOMAIN ui.memo = ActorFolderIds(folders)
    /\ \A id \in ActorFolderIds(folders) :
         /\ Kids(id) = {} => ui.memo[id] = {id}
         /\ ui.memo[id] = {id} \cup UNION {ui.memo[k] : k \in Kids(id)}
         /\ ui.memo[id] = {id} \cup ProperDescendants(folders, id)

\* The entry of a folder holds its grandchild
DescendantIndexWitness ==
  /\ ui.dialog = "open"
  /\ \E id \in ActorFolderIds(folders), k \in ActorFolderIds(folders) :
       /\ ParentId(folders, k) # id
       /\ ParentId(folders, ParentId(folders, k)) = id
       /\ k \in ui.memo[id]

\* The actors a run with the given root and includeSubfolders has in scope
InScopeOfRun(root, includeSubfolders) ==
  ScopedActors([IdleRun.cfg EXCEPT !.parentFolderId = root,
                                   !.includeSubfolders = includeSubfolders],
               folders, actors)

\* C17: for every Actor folder and every actor, the actor's folder id is in
\* the folder's entry of the descendant index exactly when actorInScope with
\* that folder as root and includeSubfolders = true holds; the catalog's
\* withSubfolders count is the number of actors a run with that root and
\* includeSubfolders = true has in scope, its direct count that number with
\* includeSubfolders = false.
ScopeComputationsAgree ==
  ui.dialog = "open" =>
    \A j \in DOMAIN ui.raw :
      /\ \A i \in DOMAIN actors :
           (actors[i].folder \in ui.memo[ui.raw[j].id])
             <=> actorInScope(folders, actors[i], ui.raw[j].id, TRUE)
      /\ ui.raw[j].withSubfolders = Len(InScopeOfRun(ui.raw[j].id, TRUE))
      /\ ui.raw[j].direct = Len(InScopeOfRun(ui.raw[j].id, FALSE))

\* A folder with one actor in it and another one in a grandchild
ScopeComputationsAgreeWitness ==
  /\ ui.dialog = "open"
  /\ \E j \in DOMAIN ui.raw :
       /\ ui.raw[j].direct = 1
       /\ ui.raw[j].withSubfolders = 2
       /\ \E i \in DOMAIN actors :
            /\ actors[i].folder # NullId
            /\ ParentId(folders, ParentId(folders, actors[i].folder))
                 = ui.raw[j].id

====
